---- MODULE Spec2Model ----
(***************************************************************************)
(* State-machine model of ubuntu-dev-manager's EnvironmentManager          *)
(* (src/environment_manager.py): the two backends (multipass, lxd) seen    *)
(* through the commands the manager dispatches, the persisted registry     *)
(* file environments.json, and one action per public operation.            *)
(***************************************************************************)
EXTENDS Integers, Sequences, FiniteSets, TLC

VARIABLES
    instances,   \* backend -> the instances it holds, in the order its list command reports them
    registry,    \* the file environments.json
    last         \* the operation that just ended: arguments, what the tools answered,
                 \* the commands dispatched, the outcome; NoOp once the caller has taken it

vars == <<instances, registry, last>>

----------------------------------------------------------------------------
(* Bounds of the model *)

MaxLive == 2      \* instances the two backends hold together while operations run
MaxInst == 2      \* instances one backend's list command reports
MaxIfaces == 2    \* network interfaces a container reports
MaxAddrs == 2     \* addresses one interface reports
MaxMounts == 2    \* mounts in the config of one create_environment
MaxJobs == 3      \* worker threads the window starts
MaxDicts == 2     \* dicts a ConfigManager holds besides default_config, its nested dict and config
MaxDepth == 3     \* nesting to which two configuration values are compared

----------------------------------------------------------------------------
(* Domains *)

Backends == <<"multipass", "lxd">>
BackendSet == {"multipass", "lxd"}
Names == {"dev", "web"}
NotAvailable == "Not available"
UnknownTemplate == "Unknown"

\* the sequences over S of length at most n
SeqUpTo(S, n) == UNION {[1..k -> S] : k \in 0..n}

\* is every element of the sequence s different in field "name"
DistinctNames(s) == \A i, j \in 1..Len(s) : i # j => s[i].name # s[j].name

Tool(backend) == IF backend = "multipass" THEN "multipass" ELSE "lxc"

\* one external command: the tool, what it is asked to do, the instance it
\* names ("" when none) and, for a mount or a script line, its position
Cmd(tool, verb, target, arg) == [tool |-> tool, verb |-> verb, target |-> target, arg |-> arg]

----------------------------------------------------------------------------
(* The template catalog, templates.py.  Two of the ten templates; a setup  *)
(* script is the sequence of its lines after strip().split('\n'), each     *)
(* line blank (FALSE) or not (TRUE).                                       *)

TemplateIds == {"ubuntu-basic", "java-dev"}

Catalog ==
    [id \in TemplateIds |->
        IF id = "ubuntu-basic"
        THEN [base_image |-> "22.04", packages |-> 10,
              setup_script |-> <<TRUE, TRUE, TRUE>>]
        ELSE [base_image |-> "22.04", packages |-> 12,
              setup_script |-> <<TRUE, TRUE, TRUE, FALSE, TRUE, TRUE, TRUE, FALSE, TRUE, TRUE>>]]

NoTemplate == [base_image |-> "", packages |-> 0, setup_script |-> <<>>]

\* EnvironmentTemplates.get_template: self.templates.get(template_id)
get_template(template_id) ==
    IF template_id \in TemplateIds THEN Catalog[template_id] ELSE NoTemplate

----------------------------------------------------------------------------
(* The registry file.  shape: "absent" (no file), "malformed" (not JSON),  *)
(* "object" (a JSON object name -> entry), "nonobject" (valid JSON of      *)
(* another top-level type).  entries is meaningful for "object" only.      *)

NoEntry == [template |-> "", backend |-> "", created |-> FALSE]

Entry(template_id, backend) == [template |-> template_id, backend |-> backend, created |-> TRUE]

EmptyEntries == [n \in Names |-> NoEntry]

RegistryFile(shape, entries) == [shape |-> shape, entries |-> entries]

\* _load_environments_config: the mapping json.load returns, {} when the file is
\* absent or not JSON.  For a "nonobject" file json.load returns a non-dict value.
LoadIsDict(reg) == reg.shape # "nonobject"

\* a load that never reads the file
_load_environments_config_Empty(reg) == EmptyEntries

_load_environments_config(reg) ==
    IF reg.shape = "object" THEN reg.entries ELSE EmptyEntries

\* a lookup that never finds the recorded template
_get_environment_template_NoLookup(reg, name) == UnknownTemplate

\* _get_environment_template: config.get(name, {}).get("template", "Unknown");
\* raises AttributeError when the loaded value has no get (LoadIsDict false)
_get_environment_template(reg, name) ==
    LET config == _load_environments_config(reg)
    IN  IF config[name] = NoEntry THEN UnknownTemplate ELSE config[name].template

----------------------------------------------------------------------------
(* Backend-side data.  An instance as its backend reports it: name, raw    *)
(* state string, the multipass "ipv4" list, the lxd "state.network" data   *)
(* and the mounts attached to it.                                          *)

RawStates == {"Running", "Stopped", "RUNNING", "Suspended", "Deleted"}

\* str.title() on the state strings
Title(s) ==
    CASE s = "RUNNING" -> "Running"
      [] s = "STOPPED" -> "Stopped"
      [] s = "running" -> "Running"
      [] s = "stopped" -> "Stopped"
      [] OTHER -> s

\* lxd network data: kind "null_state" (state is null), "null_network"
\* (state.network is null) or "ifaces" with the interfaces in reported order
NoNet == [kind |-> "null_state", ifaces |-> <<>>]

Addr(family, address) == [family |-> family, address |-> address]

Iface(name, addresses) == [name |-> name, addresses |-> addresses]

RunningNet ==
    [kind |-> "ifaces",
     ifaces |-> <<Iface("lo", <<Addr("inet", "127.0.0.1")>>),
                  Iface("eth0", <<Addr("inet6", "fd42::1"), Addr("inet", "10.0.0.5")>>)>>]

Instance(name, state, ipv4, net, mounts) ==
    [name |-> name, state |-> state, ipv4 |-> ipv4, net |-> net, mounts |-> mounts]

\* what a backend reports for an instance in the given state
FreshInstance(backend, name, state, mounts) ==
    IF backend = "multipass"
    THEN Instance(name, state, IF state = "Running" THEN <<"10.0.0.2">> ELSE <<>>, NoNet, mounts)
    ELSE Instance(name, state, <<>>, IF state = "Running" THEN RunningNet ELSE NoNet, mounts)

\* the answer of a list command: kind "ok", or "exit_nonzero" (the command
\* fails), "bad_json" (stdout is not JSON), "wrong_top_type" (JSON of another
\* top-level type: an array for multipass, an object for lxd), "missing_key"
\* (the at-th instance lacks a key), "null_field" (its state string is null)
ListKinds == {"ok", "exit_nonzero", "bad_json", "wrong_top_type", "missing_key", "null_field"}

Output(kind, at) == [kind |-> kind, at |-> at]

OkOutput == Output("ok", 0)

\* what a backend's tool answers during one operation: does its version
\* command succeed, and what does its list command print
Answer(available, output) == [available |-> available, output |-> output]

Healthy == Answer(TRUE, OkOutput)


----------------------------------------------------------------------------
(* list_environments *)

\* a probe that runs a version command whatever the backend value is
ProbeCmds_AnyBackend(backend) == <<Cmd(Tool(backend), "version", "", 0)>>

\* _check_backend_available: the version command of a known backend; for
\* any other backend value nothing runs and the answer is True
ProbeCmds(backend) ==
    IF backend \in BackendSet THEN <<Cmd(Tool(backend), "version", "", 0)>> ELSE <<>>

\* a probe that answers True whatever the version command does
_check_backend_available_Always(backend, answers) == TRUE

_check_backend_available(backend, answers) ==
    IF backend \in BackendSet THEN answers[backend].available ELSE TRUE

\* instance.get("ipv4", [...])[0] if instance.get("ipv4") else "Not available"
MultipassIp(inst) == IF Len(inst.ipv4) > 0 THEN inst.ipv4[1] ELSE NotAvailable

\* the inner loop over data["addresses"]: the first address of family inet
RECURSIVE FirstInet(_, _)
FirstInet(addresses, j) ==
    IF j > Len(addresses) THEN NotAvailable
    ELSE IF addresses[j].family = "inet" THEN addresses[j].address
    ELSE FirstInet(addresses, j + 1)

\* an outer loop that looks into lo as well
Scanned_WithLo(data) == Len(data.addresses) > 0

\* does the outer loop look into this interface
Scanned(data) == data.name # "lo" /\ Len(data.addresses) > 0

\* the outer loop over container["state"]["network"].items(), from the i-th
\* interface on; it ends once ip is no longer "Not available"
RECURSIVE ScanIfaces(_, _)
ScanIfaces(ifaces, i) ==
    IF i > Len(ifaces) THEN NotAvailable
    ELSE IF Scanned(ifaces[i]) /\ FirstInet(ifaces[i].addresses, 1) # NotAvailable
    THEN FirstInet(ifaces[i].addresses, 1)
    ELSE ScanIfaces(ifaces, i + 1)

\* the "Get IP address" lines of the lxd block
LxdIp(inst) ==
    IF inst.net.kind = "ifaces" /\ Len(inst.net.ifaces) > 0
    THEN ScanIfaces(inst.net.ifaces, 1)
    ELSE NotAvailable

\* _get_multipass_mounts: the mounts "multipass info" reports
_get_multipass_mounts(inst) == inst.mounts

\* a parser that returns the disk devices it reads
_get_lxd_mounts_Parsed(inst) == inst.mounts

\* _get_lxd_mounts: the parser of "lxc config show" collects nothing
_get_lxd_mounts(inst) == <<>>

Env(name, status, backend, ip, template, mounts) ==
    [name |-> name, status |-> status, backend |-> backend, ip |-> ip,
     template |-> template, mounts |-> mounts]

\* the command the mount lister of the backend runs for one instance
MountsCmd(backend, name) ==
    IF backend = "multipass" THEN Cmd("multipass", "info", name, 0)
    ELSE Cmd("lxc", "config show", name, 0)

\* the env dict built for one reported instance
EnvOf(backend, inst, reg) ==
    Env(inst.name, Title(inst.state), backend,
        IF backend = "multipass" THEN MultipassIp(inst) ELSE LxdIp(inst),
        _get_environment_template(reg, inst.name),
        IF backend = "multipass" THEN _get_multipass_mounts(inst) ELSE _get_lxd_mounts(inst))

\* A partial result of list_environments: the environments appended so far,
\* the commands dispatched so far, and whether an exception left the call.
Acc(envs, cmds, raised) == [envs |-> envs, cmds |-> cmds, raised |-> raised]

\* The for loop over one backend's reported instances, from the i-th on.
\* KeyError (a missing key) leaves the loop and is caught by the except
\* clause: what was appended to environments stays.  AttributeError (a null
\* state string, a registry value without get) is not caught and leaves
\* list_environments.
RECURSIVE InstanceLoop(_, _, _, _, _, _)
InstanceLoop(backend, insts, out, reg, i, acc) ==
    IF i > Len(insts) THEN acc
    ELSE IF out.kind = "missing_key" /\ out.at = i THEN acc
    ELSE IF out.kind = "null_field" /\ out.at = i THEN Acc(acc.envs, acc.cmds, TRUE)
    ELSE IF ~LoadIsDict(reg) THEN Acc(acc.envs, acc.cmds, TRUE)
    ELSE InstanceLoop(backend, insts, out, reg, i + 1,
                      Acc(Append(acc.envs, EnvOf(backend, insts[i], reg)),
                          Append(acc.cmds, MountsCmd(backend, insts[i].name)),
                          FALSE))

\* One backend's block of list_environments, continuing from acc:
\*   if self._check_backend_available(b): try: list, parse, loop
\*   except (RuntimeError, json.JSONDecodeError, KeyError): pass
BackendSection(backend, insts, answers, reg, acc) ==
    LET out == answers[backend].output
        probed == Acc(acc.envs, acc.cmds \o ProbeCmds(backend), FALSE)
        listed == Acc(probed.envs, Append(probed.cmds, Cmd(Tool(backend), "list", "", 0)), FALSE)
    IN  IF ~_check_backend_available(backend, answers) THEN probed
        ELSE IF out.kind \in {"exit_nonzero", "bad_json"} THEN listed
        ELSE IF out.kind = "wrong_top_type" THEN Acc(listed.envs, listed.cmds, TRUE)
        ELSE InstanceLoop(backend, insts, out, reg, 1, listed)

\* a list_environments that runs the lxd block first
list_environments_LxdFirst(insts, answers, reg) ==
    LET lx == BackendSection("lxd", insts["lxd"], answers, reg, Acc(<<>>, <<>>, FALSE))
    IN  IF lx.raised THEN lx
        ELSE BackendSection("multipass", insts["multipass"], answers, reg, lx)

\* list_environments: the multipass block, then the lxd block
list_environments(insts, answers, reg) ==
    LET mp == BackendSection("multipass", insts["multipass"], answers, reg,
                             Acc(<<>>, <<>>, FALSE))
    IN  IF mp.raised THEN mp
        ELSE BackendSection("lxd", insts["lxd"], answers, reg, mp)

\* next((e for e in environments if e["name"] == name), None)
NoEnv == Env("", "", "", "", "", <<>>)

\* a search that takes the first environment listed, whatever its name
FindEnv_First(envs, name, i) == IF i > Len(envs) THEN NoEnv ELSE envs[i]

RECURSIVE FindEnv(_, _, _)
FindEnv(envs, name, i) ==
    IF i > Len(envs) THEN NoEnv
    ELSE IF envs[i].name = name THEN envs[i]
    ELSE FindEnv(envs, name, i + 1)

----------------------------------------------------------------------------
(* The record of an operation *)

Mount(host, guest) == [host |-> host, guest |-> guest]

Resources(cpus, memory, disk) == [cpus |-> cpus, memory |-> memory, disk |-> disk]

NoResources == Resources(0, "", "")

\* the optional keys of the config dict passed to create_environment
Config(mounts, resources) == [mounts |-> mounts, resources |-> resources]

PlainConfig == Config(<<>>, NoResources)

Op(op, name, backend, template, answers, cmds, outcome, stage, listed, env) ==
    [op |-> op, name |-> name, backend |-> backend, template |-> template,
     config |-> PlainConfig,
     answers |-> answers, cmds |-> cmds, outcome |-> outcome, stage |-> stage,
     listed |-> listed, env |-> env]

\* the record of a create_environment(config)
OpCreate(name, backend, template, config, answers, cmds, outcome, stage) ==
    [Op("create", name, backend, template, answers, cmds, outcome, stage, <<>>, NoEnv)
        EXCEPT !.config = config]

AllHealthy == [b \in BackendSet |-> Healthy]

NoOp == Op("none", "", "", "", AllHealthy, <<>>, "ok", "", <<>>, NoEnv)

\* the caller takes the outcome of the operation
Return ==
    /\ last # NoOp
    /\ last' = NoOp
    /\ UNCHANGED <<instances, registry>>

\* the answers the tools can give: every output with every availability
Outputs ==
    {Output(k, 0) : k \in {"ok", "exit_nonzero", "bad_json", "wrong_top_type"}}
    \cup {Output(k, at) : k \in {"missing_key", "null_field"}, at \in 1..MaxInst}

AllAnswers == [BackendSet -> {Answer(a, o) : a \in BOOLEAN, o \in Outputs}]

\* the answers drawn while the operations on one environment run: a backend
\* is unavailable, lists well, or its list command fails
OpAnswers ==
    [BackendSet -> {Answer(FALSE, OkOutput), Healthy, Answer(TRUE, Output("exit_nonzero", 0))}]

\* a list that drops the registry entries of the names it did not find
RegistryAfterList_Pruning(reg, envs) ==
    IF reg.shape # "object" THEN reg
    ELSE RegistryFile("object",
             [n \in Names |-> IF \E i \in 1..Len(envs) : envs[i].name = n
                              THEN reg.entries[n] ELSE NoEntry])

\* the registry file after list_environments: the call only reads it
\* (_get_environment_template loads, nothing saves)
RegistryAfterList(reg, envs) == reg

\* list_environments called by the presentation layer, with the given answers;
\* after a create that succeeded it is the refresh that follows it
ListWith(answers) ==
    /\ last = NoOp \/ (last.op = "create" /\ last.outcome = "ok")
    /\ \E r \in {list_environments(instances, answers, registry)} :
        LET created == last.op = "create" /\ last.outcome = "ok"
        IN  /\ last' = Op(IF created THEN "list after create" ELSE "list",
                          last.name, last.backend, last.template, answers, r.cmds,
                          IF r.raised THEN "raised" ELSE "ok",
                          IF r.raised THEN "list" ELSE "",
                          IF r.raised THEN <<>> ELSE r.envs, NoEnv)
            /\ registry' = RegistryAfterList(registry, r.envs)
            /\ UNCHANGED instances

ListEnvironments == \E answers \in OpAnswers : ListWith(answers)

----------------------------------------------------------------------------
(* Backend adapters: the commands of a create, and what the backends do *)

FullConfig == Config(<<Mount("/home/user/project", "/mnt/project")>>, Resources(2, "4G", "20G"))

\* the number of resource flags _create_multipass_environment adds to launch
LaunchFlags(resources) ==
    (IF resources.cpus # 0 THEN 1 ELSE 0) + (IF resources.memory # "" THEN 1 ELSE 0)
    + (IF resources.disk # "" THEN 1 ELSE 0)

\* the mount commands of a create, one per mount in input order, from the
\* i-th on; the lxd device of the i-th mount is named mount{i-1}
RECURSIVE MountCmds(_, _, _, _)
MountCmds(backend, name, mounts, i) ==
    IF i > Len(mounts) THEN <<>>
    ELSE <<Cmd(Tool(backend), IF backend = "multipass" THEN "mount" ELSE "config device add",
               name, i - 1)>>
         \o MountCmds(backend, name, mounts, i + 1)

\* the loop over script_lines: one guest command per line that is not blank
RECURSIVE ScriptCmds(_, _, _, _)
ScriptCmds(backend, name, script_lines, i) ==
    IF i > Len(script_lines) THEN <<>>
    ELSE (IF script_lines[i] THEN <<Cmd(Tool(backend), "exec bash", name, i)>> ELSE <<>>)
         \o ScriptCmds(backend, name, script_lines, i + 1)

\* _setup_environment: apt update, apt install when there are packages, the script
_setup_environment(name, template, backend) ==
    <<Cmd(Tool(backend), "exec apt update", name, 0)>>
    \o (IF template.packages > 0 THEN <<Cmd(Tool(backend), "exec apt install", name, 0)>> ELSE <<>>)
    \o (IF Len(template.setup_script) > 0
        THEN ScriptCmds(backend, name, template.setup_script, 1) ELSE <<>>)

\* _create_multipass_environment: launch (the resources are flags of it), wait
\* for cloud-init, mount, set up
_create_multipass_environment(name, template, mounts, resources) ==
    <<Cmd("multipass", "launch", name, LaunchFlags(resources)),
      Cmd("multipass", "exec cloud-init", name, 0)>>
    \o MountCmds("multipass", name, mounts, 1)
    \o _setup_environment(name, template, "multipass")

\* _create_lxd_environment: launch, the limits, wait for cloud-init, one disk
\* device per mount, set up
_create_lxd_environment(name, template, mounts, resources) ==
    <<Cmd("lxc", "launch", name, 0)>>
    \o (IF resources.cpus # 0 THEN <<Cmd("lxc", "config set limits.cpu", name, 0)>> ELSE <<>>)
    \o (IF resources.memory # "" THEN <<Cmd("lxc", "config set limits.memory", name, 0)>> ELSE <<>>)
    \o <<Cmd("lxc", "exec cloud-init", name, 0)>>
    \o MountCmds("lxd", name, mounts, 1)
    \o _setup_environment(name, template, "lxd")

\* the commands the adapter of the backend runs for a create, in order
CreateCmds(backend, name, template, mounts, resources) ==
    IF backend = "multipass" THEN _create_multipass_environment(name, template, mounts, resources)
    ELSE _create_lxd_environment(name, template, mounts, resources)

\* an adapter that goes on after a command failed
Dispatched_All(plan, failAt) == plan

\* _run_command raises at the failAt-th command of a plan (0: at none): the
\* commands that were dispatched
Dispatched(plan, failAt) == IF failAt = 0 THEN plan ELSE SubSeq(plan, 1, failAt)

\* did the k-th command of the plan run and succeed
Succeeded(plan, failAt, k) == k <= Len(plan) /\ (failAt = 0 \/ k < failAt)

\* did a command with this verb run and succeed
VerbSucceeded(plan, failAt, verb) ==
    \E k \in 1..Len(plan) : plan[k].verb = verb /\ Succeeded(plan, failAt, k)

IsMountCmd(c) == c.verb \in {"mount", "config device add"}

\* the number of mount commands of the plan that succeeded
AttachedCount(plan, failAt) ==
    Cardinality({k \in 1..Len(plan) : IsMountCmd(plan[k]) /\ Succeeded(plan, failAt, k)})

HasInstance(insts, name) == \E i \in 1..Len(insts) : insts[i].name = name

StateOf(insts, name) ==
    IF HasInstance(insts, name)
    THEN (CHOOSE inst \in {insts[i] : i \in 1..Len(insts)} : inst.name = name).state
    ELSE ""

LiveCount(insts) == Len(insts["multipass"]) + Len(insts["lxd"])

\* the instances of a backend with the one named name put in the given state
SetState(backend, insts, name, state) ==
    [i \in 1..Len(insts) |->
        IF insts[i].name = name
        THEN FreshInstance(backend, name, state, insts[i].mounts) ELSE insts[i]]

RECURSIVE Without(_, _)
Without(insts, gone) ==
    IF insts = <<>> THEN <<>>
    ELSE (IF gone[Head(insts).name] THEN <<>> ELSE <<Head(insts)>>)
         \o Without(Tail(insts), gone)

\* the instances of a backend after the one named name is removed
RemoveInstance(insts, name) == Without(insts, [n \in Names |-> n = name])

\* multipass purge: every instance in state Deleted is gone
Purged(insts) ==
    Without(insts, [n \in Names |-> StateOf(insts, n) = "Deleted"])

\* writing the registry file: it is written, or open() fails and the file is
\* as before, or the write fails after open() truncated the file
SaveOutcomes == {"saved", "open_failed", "write_failed"}

_save_environments_config(reg, config, how) ==
    CASE how = "saved" -> RegistryFile("object", config)
      [] how = "open_failed" -> reg
      [] OTHER -> RegistryFile("malformed", EmptyEntries)

----------------------------------------------------------------------------
(* create_environment *)

CreateNames == Names \cup {""}
CreateBackends == BackendSet \cup {"docker"}
CreateTemplates == TemplateIds \cup {"no-such-template"}

\* checks that leave out the template lookup
CreateValidation_NoTemplateCheck(name, backend, template_id, answers) ==
    IF name = "" THEN "name"
    ELSE IF ~_check_backend_available(backend, answers) THEN "backend"
    ELSE ""

\* the checks before the try block: "" when they pass, else the check that raises
CreateValidation(name, backend, template_id, answers) ==
    IF name = "" THEN "name"
    ELSE IF ~_check_backend_available(backend, answers) THEN "backend"
    ELSE IF get_template(template_id) = NoTemplate THEN "template"
    ELSE ""

\* the backend after the adapter ran plan and its failAt-th command failed
\* (0: none): a launch that succeeded leaves a running instance, with the
\* mounts whose command succeeded; nothing is rolled back
AfterCreate(backend, insts, name, mounts, plan, failAt) ==
    IF Succeeded(plan, failAt, 1)
    THEN Append(insts, FreshInstance(backend, name, "Running",
                                     SubSeq(mounts, 1, AttachedCount(plan, failAt))))
    ELSE insts

\* the "Save environment configuration" lines of create_environment: load,
\* set the entry of name, save.  Item assignment on a loaded value that is no
\* dict raises TypeError and nothing is written.
CreateRegistryWrite(reg, name, template_id, backend, how) ==
    IF ~LoadIsDict(reg) THEN reg
    ELSE _save_environments_config(
             reg,
             [_load_environments_config(reg) EXCEPT ![name] = Entry(template_id, backend)],
             how)

\* a create_environment that writes the entry whether or not the adapter succeeded
RegistryAfterCreate_Eager(reg, name, template_id, backend, failAt, how) ==
    CreateRegistryWrite(reg, name, template_id, backend, how)

\* the registry after the try block of create_environment: the save lines
\* are reached only when no command of the adapter raised (failAt = 0)
RegistryAfterCreate(reg, name, template_id, backend, failAt, how) ==
    IF failAt = 0 THEN CreateRegistryWrite(reg, name, template_id, backend, how) ELSE reg

\* create_environment(config), the optional keys of config given
CreateWith(config) ==
    /\ last = NoOp
    /\ \E name \in CreateNames, backend \in CreateBackends, template_id \in CreateTemplates,
       avail \in BOOLEAN :
        \E answers \in {[b \in BackendSet |-> Answer(avail, OkOutput)]},
           plan \in {CreateCmds(backend, name, get_template(template_id),
                                config.mounts, config.resources)} :
        LET stage == CreateValidation(name, backend, template_id, answers)
            probe == IF name = "" THEN <<>> ELSE ProbeCmds(backend)
        IN  /\ (name = "" \/ backend \notin BackendSet) => avail
            /\ IF stage # ""
               THEN /\ last' = OpCreate(name, backend, template_id, config, answers, probe,
                                        "raised", stage)
                    /\ UNCHANGED <<instances, registry>>
               ELSE IF backend \notin BackendSet
               THEN /\ last' = OpCreate(name, backend, template_id, config, answers, probe,
                                        "raised", "unsupported")
                    /\ UNCHANGED <<instances, registry>>
               ELSE \E failAt \in 0..Len(plan), how \in SaveOutcomes :
                    /\ (HasInstance(instances[backend], name) \/ LiveCount(instances) >= MaxLive)
                           => failAt = 1
                    /\ failAt # 0 => how = "saved"
                    /\ instances' = [instances EXCEPT
                           ![backend] = AfterCreate(backend, @, name, config.mounts, plan, failAt)]
                    /\ registry' = RegistryAfterCreate(registry, name, template_id, backend,
                                                       failAt, how)
                    /\ last' = OpCreate(name, backend, template_id, config, answers,
                                  probe \o Dispatched(plan, failAt),
                                  IF failAt = 0 /\ LoadIsDict(registry) /\ how = "saved"
                                  THEN "ok" ELSE "raised",
                                  IF failAt # 0 THEN plan[failAt].verb
                                  ELSE IF ~LoadIsDict(registry) THEN "registry"
                                  ELSE IF how # "saved" THEN "save" ELSE "")

\* create_environment with the optional keys absent, or with a mount and resources
CreateConfigs == {PlainConfig, FullConfig}

CreateEnvironment == \E config \in CreateConfigs : CreateWith(config)

----------------------------------------------------------------------------
(* start_environment, stop_environment *)

\* the outcome of an operation that ends before it dispatches anything of its own
Ended(op, name, answers, r, env, outcome, stage) ==
    /\ last' = Op(op, name, env.backend, "", answers, r.cmds, outcome, stage,
                  IF r.raised THEN <<>> ELSE r.envs, env)
    /\ UNCHANGED <<instances, registry>>

\* start_environment and stop_environment: verb is "start" or "stop", skip the
\* listed status that makes the call return at once, state the state of the
\* instance after the command succeeded
StartOrStop(verb, skip, state) ==
    /\ last = NoOp
    /\ \E name \in Names, answers \in OpAnswers :
        \E r \in {list_environments(instances, answers, registry)} :
        \E env \in {FindEnv(r.envs, name, 1)} :
            /\ IF r.raised THEN Ended(verb, name, answers, r, NoEnv, "raised", "list")
               ELSE IF env = NoEnv THEN Ended(verb, name, answers, r, NoEnv, "raised", "not_found")
               ELSE IF env.status = skip THEN Ended(verb, name, answers, r, env, "ok", "")
               ELSE \E ok \in BOOLEAN :
                    /\ StateOf(instances[env.backend], name) = "Deleted" => ~ok
                    /\ instances' = IF ok
                                    THEN [instances EXCEPT
                                             ![env.backend] = SetState(env.backend, @, name, state)]
                                    ELSE instances
                    /\ registry' = registry
                    /\ last' = Op(verb, name, env.backend, "", answers,
                                  Append(r.cmds, Cmd(Tool(env.backend), verb, name, 0)),
                                  IF ok THEN "ok" ELSE "raised", IF ok THEN "" ELSE verb,
                                  r.envs, env)

\* a start_environment without the "already running" return
StartEnvironment_NoSkip == StartOrStop("start", "", "Running")

StartEnvironment == StartOrStop("start", "Running", "Running")

StopEnvironment == StartOrStop("stop", "Stopped", "Stopped")

----------------------------------------------------------------------------
(* delete_environment *)

\* a delete that purges before it deletes
DeleteCmds_PurgeFirst(env) ==
    (IF env.status = "Running" THEN <<Cmd(Tool(env.backend), "stop", env.name, 0)>> ELSE <<>>)
    \o (IF env.backend = "multipass" THEN <<Cmd("multipass", "purge", "", 0)>> ELSE <<>>)
    \o <<Cmd(Tool(env.backend), "delete", env.name, 0)>>

\* the backend commands of a delete, in order
DeleteCmds(env) ==
    (IF env.status = "Running" THEN <<Cmd(Tool(env.backend), "stop", env.name, 0)>> ELSE <<>>)
    \o <<Cmd(Tool(env.backend), "delete", env.name, 0)>>
    \o (IF env.backend = "multipass" THEN <<Cmd("multipass", "purge", "", 0)>> ELSE <<>>)

\* the backend after the commands of a delete ran and the failAt-th failed
\* (0: none): multipass delete leaves the instance listed in state Deleted
\* until a purge
AfterDelete(backend, insts, name, plan, failAt) ==
    LET stopped == IF VerbSucceeded(plan, failAt, "stop")
                   THEN SetState(backend, insts, name, "Stopped") ELSE insts
        deleted == IF ~VerbSucceeded(plan, failAt, "delete") THEN stopped
                   ELSE IF backend = "multipass" THEN SetState(backend, stopped, name, "Deleted")
                   ELSE RemoveInstance(stopped, name)
    IN  IF VerbSucceeded(plan, failAt, "purge") THEN Purged(deleted) ELSE deleted

\* a delete_environment that leaves the registry alone
DeleteRegistryWrite_Never(reg, name, how) == reg

\* the "Remove from configuration" lines of delete_environment: load; when
\* name is a key, delete it and save
DeleteRegistryWrite(reg, name, how) ==
    IF reg.shape = "object" /\ reg.entries[name] # NoEntry
    THEN _save_environments_config(reg, [reg.entries EXCEPT ![name] = NoEntry], how)
    ELSE reg

\* a delete_environment that removes the entry whether or not its commands succeeded
RegistryAfterDelete_Eager(reg, name, failAt, how) == DeleteRegistryWrite(reg, name, how)

\* the registry after the try block of delete_environment: the removal lines
\* are reached only when no backend command raised (failAt = 0)
RegistryAfterDelete(reg, name, failAt, how) ==
    IF failAt = 0 THEN DeleteRegistryWrite(reg, name, how) ELSE reg

\* does the removal write the file
RemovalWrites(reg, name) == reg.shape = "object" /\ reg.entries[name] # NoEntry

\* delete_environment(name).  On a loaded registry value that is no dict
\* "name in env_config" or the del raises TypeError, or finds nothing
\* (nondict: "raise" or "miss").
DeleteEnvironment ==
    /\ last = NoOp
    /\ \E name \in Names, answers \in OpAnswers :
        \E r \in {list_environments(instances, answers, registry)} :
        \E env \in {FindEnv(r.envs, name, 1)} :
        LET plan == DeleteCmds(env)
        IN  /\ IF r.raised THEN Ended("delete", name, answers, r, NoEnv, "raised", "list")
               ELSE IF env = NoEnv
               THEN Ended("delete", name, answers, r, NoEnv, "raised", "not_found")
               ELSE \E failAt \in 0..Len(plan), how \in SaveOutcomes, nondict \in {"raise", "miss"} :
                    /\ (failAt # 0 \/ ~RemovalWrites(registry, name)) => how = "saved"
                    /\ (failAt # 0 \/ LoadIsDict(registry)) => nondict = "miss"
                    /\ instances' = [instances EXCEPT
                           ![env.backend] = AfterDelete(env.backend, @, name, plan, failAt)]
                    /\ registry' = RegistryAfterDelete(registry, name, failAt, how)
                    /\ last' = Op("delete", name, env.backend, "", answers,
                                  r.cmds \o Dispatched(plan, failAt),
                                  IF failAt = 0 /\ how = "saved" /\ nondict = "miss"
                                  THEN "ok" ELSE "raised",
                                  IF failAt # 0 THEN plan[failAt].verb
                                  ELSE IF nondict = "raise" THEN "registry"
                                  ELSE IF how # "saved" THEN "save" ELSE "",
                                  r.envs, env)

----------------------------------------------------------------------------
(* open_shell *)

Terminals == <<"gnome-terminal", "konsole", "xterm", "alacritty", "wezterm">>

\* the "--version" probes of the loop over terminals when the found-th is the
\* first that answers (0: none does)
TerminalProbes(found) ==
    [k \in 1..(IF found = 0 THEN Len(Terminals) ELSE found) |->
        Cmd(Terminals[k], "--version", "", 0)]

\* an open_shell that checks only that the environment is found
ShellRefusal_FoundOnly(env) == IF env = NoEnv THEN "not_found" ELSE ""

\* the checks of open_shell before it looks for a terminal: "" when they
\* pass, else the one that raises
ShellRefusal(env) ==
    IF env = NoEnv THEN "not_found"
    ELSE IF env.status # "Running" THEN "not_running"
    ELSE ""

\* open_shell(name)
OpenShell ==
    /\ last = NoOp
    /\ \E name \in Names, answers \in OpAnswers :
        \E r \in {list_environments(instances, answers, registry)} :
        \E env \in {FindEnv(r.envs, name, 1)} :
            /\ IF r.raised THEN Ended("open_shell", name, answers, r, NoEnv, "raised", "list")
               ELSE IF ShellRefusal(env) # ""
               THEN Ended("open_shell", name, answers, r, env, "raised", ShellRefusal(env))
               ELSE \E found \in 0..Len(Terminals), spawned \in BOOLEAN :
                    /\ found = 0 => ~spawned
                    /\ last' = Op("open_shell", name, env.backend, "", answers,
                                  r.cmds \o TerminalProbes(found)
                                  \o (IF found = 0 THEN <<>>
                                      ELSE <<Cmd(Terminals[found], "spawn", name, 0)>>),
                                  IF spawned THEN "ok" ELSE "raised",
                                  IF found = 0 THEN "no_terminal"
                                  ELSE IF spawned THEN "" ELSE "spawn",
                                  r.envs, env)
                    /\ UNCHANGED <<instances, registry>>

----------------------------------------------------------------------------
(* get_environment_info *)

\* get_environment_info(name): the list, the search, then the info command of
\* the backend; the command failing or printing no JSON raises
GetEnvironmentInfo ==
    /\ last = NoOp
    /\ \E name \in Names, answers \in OpAnswers :
        \E r \in {list_environments(instances, answers, registry)} :
        \E env \in {FindEnv(r.envs, name, 1)} :
            /\ IF r.raised
               THEN Ended("get_environment_info", name, answers, r, NoEnv, "raised", "list")
               ELSE IF env = NoEnv
               THEN Ended("get_environment_info", name, answers, r, NoEnv, "raised", "not_found")
               ELSE \E ok \in BOOLEAN :
                    /\ last' = Op("get_environment_info", name, env.backend, "", answers,
                                  Append(r.cmds, Cmd(Tool(env.backend), "info", name, 0)),
                                  IF ok THEN "ok" ELSE "raised", IF ok THEN "" ELSE "info",
                                  r.envs, env)
                    /\ UNCHANGED <<instances, registry>>

----------------------------------------------------------------------------
(* What happens outside the manager: someone launches or removes an        *)
(* instance with the backend's own tool.                                    *)

ExternalLaunch ==
    \E backend \in BackendSet, name \in Names :
        /\ last = NoOp
        /\ ~HasInstance(instances[backend], name)
        /\ LiveCount(instances) < MaxLive
        /\ instances' = [instances EXCEPT
               ![backend] = Append(@, FreshInstance(backend, name, "Running", <<>>))]
        /\ UNCHANGED <<registry, last>>

ExternalRemove ==
    \E backend \in BackendSet, name \in Names :
        /\ last = NoOp
        /\ HasInstance(instances[backend], name)
        /\ instances' = [instances EXCEPT ![backend] = RemoveInstance(@, name)]
        /\ UNCHANGED <<registry, last>>

----------------------------------------------------------------------------
(* The manager with its two backends *)

InitRegistries ==
    {RegistryFile(s, EmptyEntries) : s \in {"object", "absent", "malformed", "nonobject"}}

Init ==
    /\ instances = [b \in BackendSet |-> <<>>]
    /\ registry \in InitRegistries
    /\ last = NoOp

Next ==
    \/ ListEnvironments
    \/ CreateEnvironment
    \/ StartEnvironment
    \/ StopEnvironment
    \/ DeleteEnvironment
    \/ OpenShell
    \/ GetEnvironmentInfo
    \/ ExternalLaunch
    \/ ExternalRemove
    \/ Return

Spec == Init /\ [][Next]_vars

\* the manager alone: every instance is one a create_environment launched
NextManaged ==
    \/ ListEnvironments
    \/ CreateEnvironment
    \/ StartEnvironment
    \/ StopEnvironment
    \/ DeleteEnvironment
    \/ OpenShell
    \/ GetEnvironmentInfo
    \/ Return

SpecManaged == Init /\ [][NextManaged]_vars

----------------------------------------------------------------------------
(* list_environments alone, over what the two list commands can answer:   *)
(* the backends hold any instances, the tools give any answers.            *)

ListStates == {"Running", "Stopped"}

\* the instance lists one backend can report
ReportedLists(backend) ==
    {s \in SeqUpTo({FreshInstance(backend, n, st, <<>>) : n \in Names, st \in ListStates},
                   MaxInst) : DistinctNames(s)}

ListRegistries ==
    {RegistryFile("object", EmptyEntries),
     RegistryFile("object", [EmptyEntries EXCEPT !["dev"] = Entry("ubuntu-basic", "multipass")])}

InitList ==
    /\ instances \in [BackendSet -> ReportedLists("multipass") \cup ReportedLists("lxd")]
    /\ \A b \in BackendSet : instances[b] \in ReportedLists(b)
    /\ registry \in ListRegistries
    /\ last = NoOp

ListAnyAnswer == \E answers \in AllAnswers : ListWith(answers)

NextList ==
    \/ ListAnyAnswer
    \/ Return

SpecList == InitList /\ [][NextList]_vars

----------------------------------------------------------------------------
(* The IP selection of the lxd block, over the network data one container  *)
(* can report.                                                             *)

IfaceNames == {"lo", "eth0", "eth1"}

AddrChoices == {Addr("inet", "10.0.0.5"), Addr("inet", "10.0.0.6"), Addr("inet6", "fd42::1")}

\* the orders in which k interfaces of different names can be reported
NameOrders(k) == {s \in [1..k -> IfaceNames] : \A i, j \in 1..k : i # j => s[i] # s[j]}

\* the address lists one interface can report
AddrSeqs == SeqUpTo(AddrChoices, MaxAddrs)

\* the network data of interfaces named ns, in that order, with addresses ad
NetOf(ns, ad) == [kind |-> "ifaces", ifaces |-> [i \in 1..Len(ns) |-> Iface(ns[i], ad[i])]]

NullNets == {NoNet, [kind |-> "null_network", ifaces |-> <<>>]}

\* lxd reports one running container with this network data
Holding(net) ==
    [b \in BackendSet |->
        IF b = "lxd" THEN <<Instance("dev", "Running", <<>>, net, <<>>)>> ELSE <<>>]

InitIP ==
    /\ \/ \E net \in NullNets : instances = Holding(net)
       \/ \E k \in 0..MaxIfaces :
              \E ns \in NameOrders(k), ad \in [1..k -> AddrSeqs] :
                  instances = Holding(NetOf(ns, ad))
    /\ registry = RegistryFile("object", EmptyEntries)
    /\ last = NoOp

ListHealthy == ListWith(AllHealthy)

NextIP ==
    \/ ListHealthy
    \/ Return

SpecIP == InitIP /\ [][NextIP]_vars

----------------------------------------------------------------------------
(* The adapters' create alone, on empty backends, over the configs a       *)
(* caller can pass: any mounts up to MaxMounts, resource limits all given, *)
(* in part, or absent.                                                     *)

MountChoices == {Mount("/home/user/project", "/mnt/project"), Mount("/home/user/data", "/mnt/data")}

ResourceChoices == {NoResources, Resources(2, "", ""), Resources(0, "4G", ""), Resources(2, "4G", "20G")}

AdapterConfigs == {Config(m, r) : m \in SeqUpTo(MountChoices, MaxMounts), r \in ResourceChoices}

\* the first create on backends that hold nothing yet
CreateAnyConfig ==
    /\ LiveCount(instances) = 0
    /\ \E config \in AdapterConfigs : CreateWith(config)

NextAdapter ==
    \/ CreateAnyConfig
    \/ Return

SpecAdapter == Init /\ [][NextAdapter]_vars

----------------------------------------------------------------------------
(* A create_environment and a delete_environment of the same name, each in *)
(* its own worker thread with nothing serializing them.  A step is one     *)
(* external command, the list a delete starts with, or the registry lines. *)
(* The backends answer as they do: a launch fails when the name is taken,  *)
(* a guest command fails unless the instance is running, stop and delete   *)
(* fail when there is no such instance.                                    *)

RaceName == "dev"

RaceTemplate == "ubuntu-basic"

\* a worker thread: where it is, the commands it is to run, the next of them
Thread(pc, plan, at) == [pc |-> pc, plan |-> plan, at |-> at]

IdleThread == Thread("idle", <<>>, 0)

Busy(t) == t.pc \in {"cmd", "registry"}

Over(t) == t.pc \in {"done", "failed"}

\* the two threads; overlapped: did one begin while the other was at work
Race(backend, create, delete, overlapped) ==
    [op |-> "race", backend |-> backend, create |-> create, delete |-> delete,
     overlapped |-> overlapped]

\* the thread after the command at its position succeeded (ok) or failed
AfterCmd(t, ok) ==
    IF ~ok THEN Thread("failed", t.plan, t.at)
    ELSE IF t.at = Len(t.plan) THEN Thread("registry", t.plan, t.at)
    ELSE Thread("cmd", t.plan, t.at + 1)

\* does the backend carry out this command of a create
CreateCmdRuns(backend, insts, c) ==
    IF c.verb = "launch" THEN ~HasInstance(insts, c.target)
    ELSE StateOf(insts, c.target) = "Running"

\* does the backend carry out this command of a delete
DeleteCmdRuns(backend, insts, c) ==
    IF c.verb = "purge" THEN TRUE
    ELSE HasInstance(insts, c.target) /\ StateOf(insts, c.target) # "Deleted"

\* create_environment passes its checks and calls the adapter
RaceCreateBegin ==
    /\ last.op = "race"
    /\ last.create.pc = "idle"
    /\ CreateValidation(RaceName, last.backend, RaceTemplate, AllHealthy) = ""
    /\ last' = Race(last.backend,
                    Thread("cmd", CreateCmds(last.backend, RaceName, get_template(RaceTemplate),
                                             PlainConfig.mounts, PlainConfig.resources), 1),
                    last.delete, last.overlapped \/ Busy(last.delete))
    /\ UNCHANGED <<instances, registry>>

\* the adapter runs its next command
RaceCreateCmd ==
    /\ last.op = "race"
    /\ last.create.pc = "cmd"
    /\ LET c == last.create.plan[last.create.at]
           ok == CreateCmdRuns(last.backend, instances[last.backend], c)
       IN  /\ instances' = IF ok /\ c.verb = "launch"
                           THEN [instances EXCEPT ![last.backend] =
                                    AfterCreate(last.backend, @, RaceName, <<>>, <<c>>, 0)]
                           ELSE instances
           /\ last' = [last EXCEPT !.create = AfterCmd(@, ok)]
    /\ UNCHANGED registry

\* the "Save environment configuration" lines
RaceCreateSave ==
    /\ last.op = "race"
    /\ last.create.pc = "registry"
    /\ registry' = CreateRegistryWrite(registry, RaceName, RaceTemplate, last.backend, "saved")
    /\ last' = [last EXCEPT !.create = Thread("done", @.plan, @.at)]
    /\ UNCHANGED instances

\* delete_environment lists and looks for the name
RaceDeleteBegin ==
    /\ last.op = "race"
    /\ last.delete.pc = "idle"
    /\ \E r \in {list_environments(instances, AllHealthy, registry)} :
       \E env \in {FindEnv(r.envs, RaceName, 1)} :
           last' = Race(last.backend, last.create,
                        IF env = NoEnv THEN Thread("failed", <<>>, 0)
                        ELSE Thread("cmd", DeleteCmds(env), 1),
                        last.overlapped \/ Busy(last.create))
    /\ UNCHANGED <<instances, registry>>

\* delete_environment runs its next backend command
RaceDeleteCmd ==
    /\ last.op = "race"
    /\ last.delete.pc = "cmd"
    /\ LET c == last.delete.plan[last.delete.at]
           ok == DeleteCmdRuns(last.backend, instances[last.backend], c)
       IN  /\ instances' = IF ok
                           THEN [instances EXCEPT ![last.backend] =
                                    AfterDelete(last.backend, @, RaceName, <<c>>, 0)]
                           ELSE instances
           /\ last' = [last EXCEPT !.delete = AfterCmd(@, ok)]
    /\ UNCHANGED registry

\* the "Remove from configuration" lines
RaceDeleteRemove ==
    /\ last.op = "race"
    /\ last.delete.pc = "registry"
    /\ registry' = DeleteRegistryWrite(registry, RaceName, "saved")
    /\ last' = [last EXCEPT !.delete = Thread("done", @.plan, @.at)]
    /\ UNCHANGED instances

\* before the two calls: the name is free, or an environment of that name
\* was created earlier and is running or stopped
InitRace ==
    \E backend \in BackendSet, state \in {"", "Running", "Stopped"} :
        /\ instances = [b \in BackendSet |->
                           IF b = backend /\ state # ""
                           THEN <<FreshInstance(b, RaceName, state, <<>>)>> ELSE <<>>]
        /\ registry = RegistryFile("object",
                          IF state = "" THEN EmptyEntries
                          ELSE [EmptyEntries EXCEPT ![RaceName] = Entry(RaceTemplate, backend)])
        /\ last = Race(backend, IdleThread, IdleThread, FALSE)

NextRace ==
    \/ RaceCreateBegin
    \/ RaceCreateCmd
    \/ RaceCreateSave
    \/ RaceDeleteBegin
    \/ RaceDeleteCmd
    \/ RaceDeleteRemove

SpecRace == InitRace /\ [][NextRace]_vars

----------------------------------------------------------------------------
(* Two mutating calls on different names, each in its own worker thread as  *)
(* the window starts them, with nothing serializing them.  A step is the    *)
(* checks or the list a call starts with, one external command, the load of *)
(* the registry file, the open() that truncates it, or the json.dump that   *)
(* writes it.                                                               *)

WorkerNames == <<"dev", "web">>

WorkerKinds == {"create", "delete"}

\* a worker thread: the call it makes, where it is, the commands it is to
\* run, the next of them, and the mapping it loaded from the registry file
Worker(kind, name, pc, plan, at, loaded) ==
    [kind |-> kind, name |-> name, pc |-> pc, plan |-> plan, at |-> at, loaded |-> loaded]

Workers(backend, w) == [op |-> "workers", backend |-> backend, w |-> w]

\* the commands of the call of worker t, <<>> when the call raises before any
WorkerPlan(backend, t, insts, reg) ==
    IF t.kind = "create"
    THEN IF CreateValidation(t.name, backend, RaceTemplate, AllHealthy) = ""
         THEN CreateCmds(backend, t.name, get_template(RaceTemplate),
                         PlainConfig.mounts, PlainConfig.resources)
         ELSE <<>>
    ELSE LET env == FindEnv(list_environments(insts, AllHealthy, reg).envs, t.name, 1)
         IN  IF env = NoEnv THEN <<>> ELSE DeleteCmds(env)

\* the mapping worker t writes: its loaded copy with its own change
WorkerChange(backend, t) ==
    [t.loaded EXCEPT ![t.name] =
        IF t.kind = "create" THEN Entry(RaceTemplate, backend) ELSE NoEntry]

\* the call passes its checks or its list and goes on to its commands
WorkerBegin(i) ==
    /\ last.op = "workers"
    /\ last.w[i].pc = "idle"
    /\ \E plan \in {WorkerPlan(last.backend, last.w[i], instances, registry)} :
           last' = [last EXCEPT !.w[i] =
                       IF plan = <<>> THEN [@ EXCEPT !.pc = "failed"]
                       ELSE [@ EXCEPT !.pc = "cmd", !.plan = plan, !.at = 1]]
    /\ UNCHANGED <<instances, registry>>

\* the call runs its next external command
WorkerCmd(i) ==
    /\ last.op = "workers"
    /\ last.w[i].pc = "cmd"
    /\ LET t == last.w[i]
           c == t.plan[t.at]
           ok == IF t.kind = "create"
                 THEN CreateCmdRuns(last.backend, instances[last.backend], c)
                 ELSE DeleteCmdRuns(last.backend, instances[last.backend], c)
           next == AfterCmd(Thread(t.pc, t.plan, t.at), ok)
       IN  /\ instances' =
                  IF ~ok THEN instances
                  ELSE IF t.kind = "delete"
                  THEN [instances EXCEPT ![last.backend] =
                           AfterDelete(last.backend, @, t.name, <<c>>, 0)]
                  ELSE IF c.verb = "launch"
                  THEN [instances EXCEPT ![last.backend] =
                           AfterCreate(last.backend, @, t.name, <<>>, <<c>>, 0)]
                  ELSE instances
           /\ last' = [last EXCEPT !.w[i] = [@ EXCEPT !.pc = next.pc, !.at = next.at]]
    /\ UNCHANGED registry

\* env_config = self._load_environments_config(); a delete whose name is no
\* key of it writes nothing
WorkerLoad(i) ==
    /\ last.op = "workers"
    /\ last.w[i].pc = "registry"
    /\ \E loaded \in {_load_environments_config(registry)} :
           last' = [last EXCEPT !.w[i] =
                       [@ EXCEPT !.loaded = loaded,
                                 !.pc = IF /\ last.w[i].kind = "delete"
                                           /\ loaded[last.w[i].name] = NoEntry
                                        THEN "done" ELSE "open"]]
    /\ UNCHANGED <<instances, registry>>

\* open(self.environments_file, 'w') of _save_environments_config: the file is empty
WorkerOpen(i) ==
    /\ last.op = "workers"
    /\ last.w[i].pc = "open"
    /\ registry' = RegistryFile("malformed", EmptyEntries)
    /\ last' = [last EXCEPT !.w[i] = [@ EXCEPT !.pc = "write"]]
    /\ UNCHANGED instances

\* json.dump(config, f) of _save_environments_config and the close of the file
WorkerWrite(i) ==
    /\ last.op = "workers"
    /\ last.w[i].pc = "write"
    /\ registry' = _save_environments_config(registry, WorkerChange(last.backend, last.w[i]),
                                             "saved")
    /\ last' = [last EXCEPT !.w[i] = [@ EXCEPT !.pc = "done"]]
    /\ UNCHANGED instances

\* before the two calls: a name to be created is free, a name to be deleted
\* was created earlier and is running or stopped
InitWorkers ==
    \E backend \in BackendSet, kinds \in [1..2 -> WorkerKinds],
       states \in [1..2 -> {"Running", "Stopped"}] :
        /\ instances = [b \in BackendSet |->
                           IF b # backend THEN <<>>
                           ELSE SelectSeq([i \in 1..2 |->
                                              FreshInstance(b, WorkerNames[i], states[i], <<>>)],
                                          LAMBDA inst :
                                              \E i \in 1..2 : /\ inst.name = WorkerNames[i]
                                                              /\ kinds[i] = "delete")]
        /\ registry = RegistryFile("object",
                          [n \in Names |->
                              IF \E i \in 1..2 : n = WorkerNames[i] /\ kinds[i] = "delete"
                              THEN Entry(RaceTemplate, backend) ELSE NoEntry])
        /\ last = Workers(backend,
                          [i \in 1..2 |->
                              Worker(kinds[i], WorkerNames[i], "idle", <<>>, 0, EmptyEntries)])

NextWorkers ==
    \E i \in 1..2 :
        \/ WorkerBegin(i)
        \/ WorkerCmd(i)
        \/ WorkerLoad(i)
        \/ WorkerOpen(i)
        \/ WorkerWrite(i)

SpecWorkers == InitWorkers /\ [][NextWorkers]_vars

----------------------------------------------------------------------------
(* The window: the Create button, the worker threads its handlers start,    *)
(* and the callbacks the workers hand to the event loop with                *)
(* QTimer.singleShot(0, ...).  The call a worker makes on the environment   *)
(* manager is taken by its outcome alone: it returned or it raised.         *)

GuiKinds == {"create", "start", "stop", "delete"}

\* a worker thread: the operation, where it is, whether the call raised, and
\* how many times a callback of it ran
Job(kind, pc, raised, calls) == [kind |-> kind, pc |-> pc, raised |-> raised, calls |-> calls]

Callback(job, handler) == [job |-> job, handler |-> handler]

Gui(create_btn, jobs, events) ==
    [op |-> "gui", create_btn |-> create_btn, jobs |-> jobs, events |-> events]

\* the handler a worker names when its call returned
SuccessHandler(kind) ==
    CASE kind = "create" -> "on_environment_created"
      [] kind = "start" -> "on_environment_started"
      [] kind = "stop" -> "on_environment_stopped"
      [] OTHER -> "on_environment_deleted"

\* a worker that hands over a callback only when its call returned
Posted_OnReturnOnly(events, job, kind, raised) ==
    IF raised THEN events ELSE Append(events, Callback(job, SuccessHandler(kind)))

\* the try/except of a worker: one QTimer.singleShot, of the success handler
\* or of on_environment_error
Posted(events, job, kind, raised) ==
    Append(events, Callback(job, IF raised THEN "on_environment_error"
                                 ELSE SuccessHandler(kind)))

\* the Create button after a handler ran: on_environment_created and
\* on_environment_error enable it, the other handlers leave it
ButtonAfter(create_btn, handler) ==
    IF handler \in {"on_environment_created", "on_environment_error"} THEN TRUE
    ELSE create_btn

\* a click on the enabled Create button, the dialog accepted:
\* create_environment disables the button and starts create_worker
GuiCreate ==
    /\ last.op = "gui"
    /\ last.create_btn
    /\ Len(last.jobs) < MaxJobs
    /\ last' = Gui(FALSE, Append(last.jobs, Job("create", "running", FALSE, 0)), last.events)
    /\ UNCHANGED <<instances, registry>>

\* start_environment, stop_environment or delete_environment starts its worker
GuiOperate ==
    /\ last.op = "gui"
    /\ Len(last.jobs) < MaxJobs
    /\ \E kind \in GuiKinds \ {"create"} :
           last' = Gui(last.create_btn, Append(last.jobs, Job(kind, "running", FALSE, 0)),
                       last.events)
    /\ UNCHANGED <<instances, registry>>

\* the call of a worker returns or raises and the worker hands over its callback
WorkerEnd ==
    /\ last.op = "gui"
    /\ \E j \in 1..Len(last.jobs), raised \in BOOLEAN :
           /\ last.jobs[j].pc = "running"
           /\ last' = Gui(last.create_btn,
                          [last.jobs EXCEPT ![j] = Job(@.kind, "finished", raised, @.calls)],
                          Posted(last.events, j, last.jobs[j].kind, raised))
    /\ UNCHANGED <<instances, registry>>

\* the event loop runs the callback that waited longest
GuiCallback ==
    /\ last.op = "gui"
    /\ last.events # <<>>
    /\ LET e == Head(last.events)
       IN  last' = Gui(ButtonAfter(last.create_btn, e.handler),
                       [last.jobs EXCEPT ![e.job] = Job(@.kind, @.pc, @.raised, @.calls + 1)],
                       Tail(last.events))
    /\ UNCHANGED <<instances, registry>>

InitGui ==
    /\ instances = [b \in BackendSet |-> <<>>]
    /\ registry = RegistryFile("object", EmptyEntries)
    /\ last = Gui(TRUE, <<>>, <<>>)

NextGui ==
    \/ GuiCreate
    \/ GuiOperate
    \/ WorkerEnd
    \/ GuiCallback

SpecGui == InitGui /\ [][NextGui]_vars

\* the event loop of the window keeps running: a callback that waits is run
SpecGuiFair == SpecGui /\ WF_vars(GuiCallback)

----------------------------------------------------------------------------
(* ConfigManager.  Python dicts are objects: a value stored in a dict is a  *)
(* scalar or a reference to a dict, and dict.copy() and dict.update() copy  *)
(* references.  The heap maps the id of every dict to its items; a dict no  *)
(* reference leads to is collected.  Of default_config the model keeps the  *)
(* scalar "theme" and the nested "window_geometry" with its "width".  A     *)
(* dotted key is the sequence of its segments, as key.split('.') gives it.  *)

Segs == {"theme", "window_geometry", "backup", "width"}

SegOrder == <<"theme", "window_geometry", "backup", "width">>

Scalar(s) == [kind |-> "scalar", at |-> 0, s |-> s]

DictRef(at) == [kind |-> "dict", at |-> at, s |-> ""]

\* no item of that key
Absent == [kind |-> "absent", at |-> 0, s |-> ""]

None == Scalar("None")

EmptyDict == [k \in Segs |-> Absent]

\* the ids of self.default_config, of its "window_geometry" and of self.config
DefaultTop == 0

DefaultGeometry == 1

ConfigTop == 2

DictIds == 0..(ConfigTop + MaxDicts)

\* the heap after the assignment of self.default_config
DefaultHeap ==
    [i \in DictIds |->
        CASE i = DefaultTop -> [EmptyDict EXCEPT !["theme"] = Scalar("system"),
                                                 !["window_geometry"] = DictRef(DefaultGeometry)]
          [] i = DefaultGeometry -> [EmptyDict EXCEPT !["width"] = Scalar("1000")]
          [] OTHER -> EmptyDict]

RECURSIVE ReachFrom(_, _, _)
\* the dicts references lead to from the dicts of R, in at most n steps
ReachFrom(heap, R, n) ==
    IF n = 0 THEN R
    ELSE \* the dicts an item of a dict of R refers to
         LET more == {i \in DictIds \ R : \E j \in R, g \in Segs :
                         heap[j][g].kind = "dict" /\ heap[j][g].at = i}
         IN  IF more = {} THEN R ELSE ReachFrom(heap, R \cup more, n - 1)

\* the dicts in use: those self.default_config and self.config lead to, and
\* those the running call holds
InUse(heap, held) == ReachFrom(heap, {DefaultTop, ConfigTop} \cup held, Cardinality(DictIds))

Free(heap, held) == DictIds \ InUse(heap, held)

\* the id a new dict gets
Alloc(heap, held) == CHOOSE i \in Free(heap, held) : \A j \in Free(heap, held) : i <= j

\* the heap when the call returned
Collect(heap) == [i \in DictIds |-> IF i \in InUse(heap, {}) THEN heap[i] ELSE EmptyDict]

Held(value) == IF value.kind = "dict" THEN {value.at} ELSE {}

RECURSIVE Lookup(_, _, _, _)
\* the loop "for k in keys" of get and reset_key from value on: the value
\* found, Absent where the code takes its else branch
Lookup(heap, value, keys, i) ==
    IF i > Len(keys) THEN value
    ELSE IF value.kind = "dict" /\ heap[value.at][keys[i]] # Absent
    THEN Lookup(heap, heap[value.at][keys[i]], keys, i + 1)
    ELSE Absent

\* get(key) with the default default
get(heap, keys) ==
    LET value == Lookup(heap, DictRef(ConfigTop), keys, 1)
    IN  IF value = Absent THEN None ELSE value

RECURSIVE SetFrom(_, _, _, _, _)
\* set from the dict at on: a segment that is no key, or whose value is no
\* dict, gets a new empty dict; the last segment gets the value
SetFrom(heap, at, keys, i, value) ==
    IF i = Len(keys) THEN [heap EXCEPT ![at][keys[i]] = value]
    ELSE IF heap[at][keys[i]].kind = "dict"
    THEN SetFrom(heap, heap[at][keys[i]].at, keys, i + 1, value)
    ELSE LET new == Alloc(heap, Held(value))
         IN  SetFrom([heap EXCEPT ![at][keys[i]] = DictRef(new), ![new] = EmptyDict],
                     new, keys, i + 1, value)

set(heap, keys, value) == SetFrom(heap, ConfigTop, keys, 1, value)

RECURSIVE update(_, _, _)
\* update(updates): set for every item, in the order of the dict
update(heap, updates, i) ==
    IF i > Len(updates) THEN heap
    ELSE update(set(heap, updates[i][1], updates[i][2]), updates, i + 1)

\* dict.copy(): a new dict of the same items
Copy(heap, from, to) == [heap EXCEPT ![to] = heap[from]]

reset(heap) == Copy(heap, DefaultTop, ConfigTop)

reset_key(heap, keys) ==
    LET default_value == Lookup(heap, DictRef(DefaultTop), keys, 1)
    IN  IF default_value = Absent THEN heap ELSE set(heap, keys, default_value)

\* the config file: absent, no JSON, or a JSON object.  Of the object the top
\* items; a nested object {"width": w} is Nested(w), {} is Nested("")
Nested(w) == [kind |-> "object", at |-> 0, s |-> w]

File(shape, top) == [shape |-> shape, top |-> top]

Files ==
    {File("absent", EmptyDict), File("malformed", EmptyDict)} \cup
    {File("object", [EmptyDict EXCEPT !["theme"] = t, !["window_geometry"] = g, !["backup"] = b]) :
        t \in {Absent, Scalar("dark")},
        g \in {Absent, Scalar("5"), Nested(""), Nested("800")},
        b \in {Absent}}

RECURSIVE Merged(_, _, _)
\* config.update(loaded_config): every top item of the file replaces the
\* item of that key; a nested object of the file is a dict of its own
Merged(heap, top, i) ==
    IF i > Len(SegOrder) THEN heap
    ELSE LET k == SegOrder[i]
             new == Alloc(heap, {})
         IN  CASE top[k] = Absent -> Merged(heap, top, i + 1)
               [] top[k].kind = "object" ->
                      Merged([heap EXCEPT ![ConfigTop][k] = DictRef(new),
                                          ![new] = IF top[k].s = "" THEN EmptyDict
                                                   ELSE [EmptyDict EXCEPT !["width"] =
                                                            Scalar(top[k].s)]],
                             top, i + 1)
               [] OTHER -> Merged([heap EXCEPT ![ConfigTop][k] = top[k]], top, i + 1)

load(heap, file) ==
    IF file.shape = "object" THEN Merged(Copy(heap, DefaultTop, ConfigTop), file.top, 1)
    ELSE Copy(heap, DefaultTop, ConfigTop)

\* the manager and the call that just returned
Call(name, key, value, result) == [name |-> name, key |-> key, value |-> value, result |-> result]

Cfg(heap, call) == [op |-> "config", heap |-> Collect(heap), call |-> call]

SetKeys == {<<"theme">>, <<"window_geometry", "width">>, <<"backup">>, <<"backup", "width">>,
            <<"theme", "width">>}

\* the keys whose value a caller takes to store it again, and the keys reset
GotKeys == {<<"window_geometry">>, <<"backup">>}

ResetKeys == {<<"theme">>, <<"window_geometry">>, <<"window_geometry", "width">>, <<"backup">>}

\* does a set of this key find the dicts it may have to make
Room(heap) == Cardinality(Free(heap, {})) >= 2

\* set(key, value) with a scalar
SetScalar ==
    /\ last.op = "config"
    /\ Room(last.heap)
    /\ \E keys \in SetKeys, value \in {Scalar("1280")} :
           last' = Cfg(set(last.heap, keys, value), Call("set", keys, value, None))
    /\ UNCHANGED <<instances, registry>>

\* set(key, {"width": "1"})
SetDict ==
    /\ last.op = "config"
    /\ Room(last.heap)
    /\ \E keys \in SetKeys :
           LET new == Alloc(last.heap, {})
               heap == [last.heap EXCEPT ![new] = [EmptyDict EXCEPT !["width"] = Scalar("1")]]
           IN  last' = Cfg(set(heap, keys, DictRef(new)),
                           Call("set", keys, DictRef(new), None))
    /\ UNCHANGED <<instances, registry>>

\* set(key, get(other))
SetGot ==
    /\ last.op = "config"
    /\ Room(last.heap)
    /\ \E keys \in SetKeys, other \in GotKeys :
           LET value == get(last.heap, other)
           IN  last' = Cfg(set(last.heap, keys, value), Call("set", keys, value, None))
    /\ UNCHANGED <<instances, registry>>

\* update({key: value, other: value2}) with scalars
Update ==
    /\ last.op = "config"
    /\ Room(last.heap)
    /\ \E keys \in {<<"theme">>, <<"window_geometry", "width">>}, other \in {<<"backup", "width">>} :
           /\ last' = Cfg(update(last.heap, <<<<keys, Scalar("1280")>>, <<other, Scalar("dark")>>>>, 1),
                          Call("update", keys, Scalar("1280"), None))
    /\ UNCHANGED <<instances, registry>>

Reset ==
    /\ last.op = "config"
    /\ last' = Cfg(reset(last.heap), Call("reset", <<>>, None, None))
    /\ UNCHANGED <<instances, registry>>

ResetKey ==
    /\ last.op = "config"
    /\ Room(last.heap)
    /\ \E keys \in ResetKeys :
           last' = Cfg(reset_key(last.heap, keys), Call("reset_key", keys, None, None))
    /\ UNCHANGED <<instances, registry>>

\* a ConfigManager just constructed: self.config = self.load()
InitConfig ==
    /\ instances = [b \in BackendSet |-> <<>>]
    /\ registry = RegistryFile("object", EmptyEntries)
    /\ \E file \in Files :
           last = Cfg(load(DefaultHeap, file), Call("load", <<>>, None, None))

NextConfig ==
    \/ SetScalar
    \/ SetDict
    \/ SetGot
    \/ Update
    \/ Reset
    \/ ResetKey

SpecConfig == InitConfig /\ [][NextConfig]_vars

----------------------------------------------------------------------------
(* Properties *)

\* the operation that ends with this step
Ends(op) == last.op = "none" /\ last'.op = op

HasCmd(cmds, tools, verbs) ==
    \E k \in 1..Len(cmds) : cmds[k].tool \in tools /\ cmds[k].verb \in verbs

BackendTools == {"multipass", "lxc"}

TerminalSet == {Terminals[k] : k \in 1..Len(Terminals)}

OtherBackend(backend) == IF backend = "multipass" THEN "lxd" ELSE "multipass"

\* the (name, backend) pairs of a sequence of environments, in order
Tags(envs) == [i \in 1..Len(envs) |-> <<envs[i].name, envs[i].backend>>]

\* C1: delete_environment(name) changes the registry only after every
\* backend command of the delete (stop before delete, delete, purge) was
\* dispatched and succeeded, so that the instance is gone from its backend;
\* when one of these commands fails the registry is exactly as before.
C1_DeleteKeepsEntryOnFailure ==
    [][Ends("delete") =>
        /\ last'.stage \in {"stop", "delete", "purge"} => registry' = registry
        /\ registry' # registry =>
             /\ last'.stage \in {"", "save"}
             /\ HasCmd(last'.cmds, {Tool(last'.backend)}, {"delete"})
             /\ ~HasInstance(instances'[last'.backend], last'.name)]_vars

\* a delete whose backend command failed and left the entry of the name in place
C1_Witness ==
    /\ last.op = "delete"
    /\ last.stage \in {"delete", "purge"}
    /\ registry.shape = "object"
    /\ registry.entries[last.name] # NoEntry

\* C2: a create_environment that fails in its validation or at a command of
\* the adapter (launch, limits, ready wait, mount, apt, setup script) leaves
\* the registry as it was; the registry changes only when every command of
\* the adapter was dispatched and succeeded.
C2_CreateFailureLeavesRegistry ==
    [][Ends("create") =>
        /\ last'.stage \notin {"", "save"} => registry' = registry
        /\ registry' # registry =>
             /\ last'.backend \in BackendSet
             /\ \E config \in CreateConfigs :
                    last'.cmds = ProbeCmds(last'.backend)
                                 \o CreateCmds(last'.backend, last'.name,
                                               get_template(last'.template),
                                               config.mounts, config.resources)
             /\ HasInstance(instances'[last'.backend], last'.name)]_vars

\* a create that launched the instance, failed at its mount command and wrote no entry
C2_Witness ==
    /\ last.op = "create"
    /\ last.stage \in {"mount", "config device add"}
    /\ HasInstance(instances[last.backend], last.name)
    /\ registry.entries[last.name] = NoEntry

\* C3: the list_environments that follows a successful create_environment of
\* name n with template t on backend b, with b available and listing well,
\* returns an environment named n of backend b whose template is t.
C3_CreateListRoundTrip ==
    (last.op = "list after create" /\ last.answers[last.backend] = Healthy) =>
        /\ last.outcome = "ok"
        /\ \E i \in 1..Len(last.listed) :
               /\ last.listed[i].name = last.name
               /\ last.listed[i].backend = last.backend
               /\ last.listed[i].template = last.template

\* the refresh after a successful create shows the new environment with its template
C3_Witness ==
    /\ last.op = "list after create"
    /\ last.answers[last.backend] = Healthy
    /\ last.template = "java-dev"
    /\ \E i \in 1..Len(last.listed) :
           last.listed[i].name = last.name /\ last.listed[i].template = "java-dev"

\* C4: start_environment on an environment listed Running, and
\* stop_environment on one listed Stopped, return without error, dispatch no
\* start or stop command and leave the backends as they are.
C4_StartStopIdempotent ==
    [][(/\ last.op = "none"
        /\ \/ last'.op = "start" /\ last'.env.status = "Running"
           \/ last'.op = "stop" /\ last'.env.status = "Stopped") =>
        /\ last'.outcome = "ok"
        /\ ~HasCmd(last'.cmds, BackendTools, {"start", "stop"})
        /\ instances' = instances]_vars

\* a start of an environment that is listed Running
C4_Witness ==
    /\ last.op = "start"
    /\ last.env.status = "Running"
    /\ last.outcome = "ok"

\* C5: when the availability probe of a backend fails, list_environments
\* sends that backend no list command and returns no entry of it; with the
\* other backend available and listing well the call returns exactly that
\* backend's instances in reported order, and with the other backend
\* unavailable too, or its list command failing or printing no JSON, it
\* returns the empty list.
C5_UnavailableBackendSkipped ==
    \A b \in BackendSet :
        (last.op = "list" /\ ~last.answers[b].available) =>
            /\ ~HasCmd(last.cmds, {Tool(b)}, {"list"})
            /\ \A i \in 1..Len(last.listed) : last.listed[i].backend # b
            /\ last.answers[OtherBackend(b)] = Healthy =>
                   /\ last.outcome = "ok"
                   /\ Tags(last.listed) =
                          [i \in 1..Len(instances[OtherBackend(b)]) |->
                              <<instances[OtherBackend(b)][i].name, OtherBackend(b)>>]
            /\ (\/ ~last.answers[OtherBackend(b)].available
                \/ last.answers[OtherBackend(b)].output.kind \in {"exit_nonzero", "bad_json"}) =>
                   /\ last.outcome = "ok"
                   /\ last.listed = <<>>

\* multipass is unavailable, with ill-formed output waiting, and the list
\* returned is the two containers lxd reports
C5_Witness ==
    /\ last.op = "list"
    /\ ~last.answers["multipass"].available
    /\ last.answers["multipass"].output.kind = "wrong_top_type"
    /\ Len(instances["multipass"]) > 0
    /\ last.answers["lxd"] = Healthy
    /\ Len(last.listed) = 2

\* C6: list_environments never raises, whatever a list command answers, and
\* its result holds every instance a healthy backend reported.
C6_ListNeverRaises ==
    last.op = "list" =>
        /\ last.outcome = "ok"
        /\ \A b \in BackendSet :
               last.answers[b] = Healthy =>
                   \A i \in 1..Len(instances[b]) :
                       \E j \in 1..Len(last.listed) :
                           Tags(last.listed)[j] = <<instances[b][i].name, b>>

\* C7: a backend whose listing fails (the command fails, the output is no
\* JSON, an instance lacks a key) has no entry in the result.
C7_FailingBackendContributesNothing ==
    \A b \in BackendSet :
        (/\ last.op = "list"
         /\ last.outcome = "ok"
         /\ last.answers[b].available
         /\ \/ last.answers[b].output.kind \in {"exit_nonzero", "bad_json"}
            \/ /\ last.answers[b].output.kind = "missing_key"
               /\ last.answers[b].output.at <= Len(instances[b])) =>
            \A i \in 1..Len(last.listed) : last.listed[i].backend # b

\* C8: open_shell on a name that is not listed, or whose listed status is not
\* Running, raises and neither probes a terminal emulator nor spawns one.
C8_ShellNeedsRunning ==
    (last.op = "open_shell" /\ (last.env = NoEnv \/ last.env.status # "Running")) =>
        /\ last.outcome = "raised"
        /\ ~HasCmd(last.cmds, TerminalSet, {"--version", "spawn"})

\* an open_shell refused on an environment that is listed Stopped
C8_Witness ==
    /\ last.op = "open_shell"
    /\ last.env # NoEnv
    /\ last.env.status = "Stopped"
    /\ last.stage = "not_running"

\* the (interface, address) positions of a container's network data that
\* hold an inet address on an interface other than lo
InetPositions(ifaces) ==
    {p \in (1..Len(ifaces)) \X (1..MaxAddrs) :
        /\ ifaces[p[1]].name # "lo"
        /\ p[2] <= Len(ifaces[p[1]].addresses)
        /\ ifaces[p[1]].addresses[p[2]].family = "inet"}

Before(p, q) == p[1] < q[1] \/ (p[1] = q[1] /\ p[2] < q[2])

\* C9: the ip of a listed container is the address at the first position, in
\* interface order and then address order, that holds an inet address on an
\* interface other than lo; it is "Not available" when there is none (no
\* state, no network, only lo, only inet6).
C9_FirstNonLoopbackInet ==
    (last.op = "list" /\ Len(last.listed) = 1 /\ Len(instances["lxd"]) = 1) =>
        LET net == instances["lxd"][1].net
            pos == InetPositions(net.ifaces)
        IN  IF net.kind # "ifaces" \/ pos = {}
            THEN last.listed[1].ip = NotAvailable
            ELSE \E p \in pos :
                     /\ \A q \in pos : q = p \/ Before(p, q)
                     /\ last.listed[1].ip = net.ifaces[p[1]].addresses[p[2]].address

\* lo comes first with an inet address, eth0 reports inet6 then inet: the
\* ip is the inet address of eth0
C9_Witness ==
    /\ last.op = "list"
    /\ Len(last.listed) = 1
    /\ instances["lxd"][1].net.kind = "ifaces"
    /\ instances["lxd"][1].net.ifaces =
           <<Iface("lo", <<Addr("inet", "10.0.0.5")>>),
             Iface("eth0", <<Addr("inet6", "fd42::1"), Addr("inet", "10.0.0.6")>>)>>
    /\ last.listed[1].ip = "10.0.0.6"

\* C10: create_environment with an empty name, with a chosen backend whose
\* probe fails, or with a template id the catalog lacks raises, dispatches no
\* launch command and leaves registry and backends as they were.
C10_CreateValidatesFirst ==
    [][(/\ Ends("create")
        /\ \/ last'.name = ""
           \/ ~_check_backend_available(last'.backend, last'.answers)
           \/ last'.template \notin TemplateIds) =>
        /\ last'.outcome = "raised"
        /\ ~HasCmd(last'.cmds, BackendTools, {"launch"})
        /\ registry' = registry
        /\ instances' = instances]_vars

\* a create refused for a template id that is not in the catalog
C10_Witness ==
    /\ last.op = "create"
    /\ last.name # ""
    /\ last.backend \in BackendSet
    /\ last.answers[last.backend].available
    /\ last.template = "no-such-template"
    /\ last.stage = "template"

\* C11: start_environment, stop_environment and delete_environment of a name
\* that the list they take does not contain raise the not-found error,
\* dispatch no start, stop, delete or purge command and leave the registry
\* and the backends as they were, an entry of that name in the registry
\* included.
C11_NotFoundTouchesNothing ==
    [][(/\ last.op = "none"
        /\ last'.op \in {"start", "stop", "delete"}
        /\ last'.stage # "list"
        /\ \A i \in 1..Len(last'.listed) : last'.listed[i].name # last'.name) =>
        /\ last'.outcome = "raised"
        /\ last'.stage = "not_found"
        /\ ~HasCmd(last'.cmds, BackendTools, {"start", "stop", "delete", "purge"})
        /\ registry' = registry
        /\ instances' = instances]_vars

\* a delete of a name that no backend lists while the registry holds an entry of it
C11_Witness ==
    /\ last.op = "delete"
    /\ last.stage = "not_found"
    /\ \A i \in 1..Len(last.listed) : last.listed[i].name # last.name
    /\ registry.shape = "object"
    /\ registry.entries[last.name] # NoEntry

\* C12: the start, stop, delete and purge commands of a start_environment,
\* stop_environment or delete_environment of name n, run with both backends
\* available, all go to the tool of the backend that the registry entry of
\* n records.
C12_RoutedByRecordedBackend ==
    [][(/\ last.op = "none"
        /\ last'.op \in {"start", "stop", "delete"}
        /\ last'.answers = AllHealthy
        /\ registry.shape = "object"
        /\ registry.entries[last'.name] # NoEntry) =>
        \A k \in 1..Len(last'.cmds) :
            last'.cmds[k].verb \in {"start", "stop", "delete", "purge"} =>
                last'.cmds[k].tool = Tool(registry.entries[last'.name].backend)]_vars

\* the step of the adapter's create a command belongs to: launch, the limits,
\* the ready wait, a mount, the package installation, a setup-script line
StepRank(verb) ==
    CASE verb = "launch" -> 1
      [] verb = "config set limits.cpu" -> 2
      [] verb = "config set limits.memory" -> 3
      [] verb = "exec cloud-init" -> 4
      [] verb \in {"mount", "config device add"} -> 5
      [] verb = "exec apt update" -> 6
      [] verb = "exec apt install" -> 7
      [] verb = "exec bash" -> 8
      [] OTHER -> 0

\* a command as <<step, position within the step>>: the position is the
\* index of the mount (from 0) or of the script line (from 1), else 0
StepOf(c) == <<StepRank(c.verb), IF StepRank(c.verb) \in {5, 8} THEN c.arg ELSE 0>>

\* the steps a create on this backend with this template and config consists of
ExpectedSteps(backend, template, config) ==
    {<<1, 0>>, <<4, 0>>, <<6, 0>>}
    \cup (IF backend = "lxd" /\ config.resources.cpus # 0 THEN {<<2, 0>>} ELSE {})
    \cup (IF backend = "lxd" /\ config.resources.memory # "" THEN {<<3, 0>>} ELSE {})
    \cup {<<5, i - 1>> : i \in 1..Len(config.mounts)}
    \cup (IF template.packages > 0 THEN {<<7, 0>>} ELSE {})
    \cup {<<8, i>> : i \in {j \in 1..Len(template.setup_script) : template.setup_script[j]}}

\* the commands of an operation after the probe of its backend
AfterProbe(cmds) == SelectSeq(cmds, LAMBDA c : c.verb # "version")

\* C13: the commands an adapter's create dispatches are, in the order launch,
\* (limits,) ready wait, mounts in input order, package installation, one
\* command per non-blank script line in order, an initial part of the steps
\* of the create, all of them when none fails; a command that fails is the
\* last one dispatched, no stop, delete or purge command follows it, and the
\* instance a successful launch made stays, with the mounts attached so far.
C13_CreateStepsInOrder ==
    [][(/\ Ends("create")
        /\ last'.stage \notin {"name", "backend", "template", "unsupported"}) =>
        \E A \in {AfterProbe(last'.cmds)},
           all \in {ExpectedSteps(last'.backend, get_template(last'.template), last'.config)},
           failed \in {last'.stage \notin {"", "registry", "save"}} :
        \E steps \in {{StepOf(A[k]) : k \in 1..Len(A)}},
           mounted \in {Cardinality({k \in 1..Len(A) :
                                       StepRank(A[k].verb) = 5 /\ (~failed \/ k < Len(A))})} :
            /\ \A k \in 1..Len(A) :
                   A[k].tool = Tool(last'.backend) /\ A[k].target = last'.name
            /\ \A k, l \in 1..Len(A) : k < l => Before(StepOf(A[k]), StepOf(A[l]))
            /\ steps \subseteq all
            /\ \A e \in all : \A d \in steps : Before(e, d) => e \in steps
            /\ ~failed => steps = all
            /\ failed => A[Len(A)].verb = last'.stage
            /\ ~HasCmd(last'.cmds, BackendTools, {"stop", "delete", "purge"})
            /\ (Len(A) > 1 \/ ~failed) =>
                   \E i \in 1..Len(instances'[last'.backend]) :
                       /\ instances'[last'.backend][i].name = last'.name
                       /\ instances'[last'.backend][i].mounts =
                              SubSeq(last'.config.mounts, 1, mounted)]_vars

\* a create with two mounts whose second mount command failed: the first
\* mount is attached, nothing was dispatched after the failure
C13_Witness ==
    /\ last.op = "create"
    /\ Len(last.config.mounts) = 2
    /\ last.config.mounts[1] # last.config.mounts[2]
    /\ last.stage \in {"mount", "config device add"}
    /\ last.cmds[Len(last.cmds)].arg = 1
    /\ \E i \in 1..Len(instances[last.backend]) :
           /\ instances[last.backend][i].name = last.name
           /\ instances[last.backend][i].mounts = <<last.config.mounts[1]>>

\* C14: every environment an operation has listed has a status among
\* Running, Stopped and Unknown.
C14_StatusInDomain ==
    \A i \in 1..Len(last.listed) : last.listed[i].status \in {"Running", "Stopped", "Unknown"}

\* C15: with the registry file absent, not JSON, or JSON that is no object,
\* list_environments returns, and every environment it returns has the
\* template "Unknown".
C15_RegistryLoadNeverFails ==
    (last.op = "list" /\ registry.shape \in {"absent", "malformed", "nonobject"}) =>
        /\ last.outcome = "ok"
        /\ \A i \in 1..Len(last.listed) : last.listed[i].template = UnknownTemplate

\* the verbs of the stop, delete and purge commands among cmds, in order
RemovalVerbs(cmds) ==
    LET D == SelectSeq(cmds, LAMBDA c : c.verb \in {"stop", "delete", "purge"})
    IN  [k \in 1..Len(D) |-> D[k].verb]

\* C16: a delete_environment of a found environment dispatches, to the tool
\* of its backend, stop (only when it is listed Running), then delete, then
\* on multipass purge and on lxd no purge; a command is dispatched only when
\* the ones before it succeeded, and the registry is changed only after all
\* of them succeeded.
C16_DeleteOrder ==
    [][(Ends("delete") /\ last'.env # NoEnv) =>
        \E D \in {RemovalVerbs(last'.cmds)},
           all \in {(IF last'.env.status = "Running" THEN <<"stop">> ELSE <<>>)
                    \o <<"delete">>
                    \o (IF last'.env.backend = "multipass" THEN <<"purge">> ELSE <<>>)},
           failed \in {last'.stage \in {"stop", "delete", "purge"}} :
            /\ Len(D) <= Len(all)
            /\ \A k \in 1..Len(D) : D[k] = all[k]
            /\ ~HasCmd(last'.cmds, {Tool(OtherBackend(last'.env.backend))},
                       {"stop", "delete", "purge"})
            /\ failed => D[Len(D)] = last'.stage
            /\ ~failed => D = all
            /\ registry' # registry => ~failed /\ D = all]_vars

\* a delete of a running multipass instance that stopped, deleted and purged
\* it and then removed its registry entry
C16_Witness ==
    /\ last.op = "delete"
    /\ last.env.backend = "multipass"
    /\ last.env.status = "Running"
    /\ last.env.template # UnknownTemplate
    /\ RemovalVerbs(last.cmds) = <<"stop", "delete", "purge">>
    /\ last.outcome = "ok"
    /\ registry.entries[last.name] = NoEntry

\* what a backend adds to the list: its instances in reported order when it
\* is available and lists well, nothing when it is unavailable, its list
\* command fails or prints no JSON
Contribution(backend, answer) ==
    IF answer = Healthy
    THEN [i \in 1..Len(instances[backend]) |-> <<instances[backend][i].name, backend>>]
    ELSE <<>>

Settled(answer) ==
    \/ answer = Healthy
    \/ ~answer.available
    \/ answer.output.kind \in {"exit_nonzero", "bad_json"}

\* C17: the list list_environments returns is the multipass instances in the
\* order `multipass list` reported them followed by the lxd containers in
\* the order `lxc list` reported them: none dropped, duplicated or
\* reordered, and a name held by both backends appears once for each.
C17_BackendThenReportedOrder ==
    (/\ last.op = "list"
     /\ \A b \in BackendSet : Settled(last.answers[b])) =>
        /\ last.outcome = "ok"
        /\ Tags(last.listed) = Contribution("multipass", last.answers["multipass"])
                               \o Contribution("lxd", last.answers["lxd"])

\* both backends hold web and dev, reported in different orders: the list is
\* the two multipass instances, then the two containers, as reported
C17_Witness ==
    /\ last.op = "list"
    /\ last.answers = AllHealthy
    /\ Tags(last.listed) = <<<<"web", "multipass">>, <<"dev", "multipass">>,
                             <<"dev", "lxd">>, <<"web", "lxd">>>>

\* did the list command of the backend run and fail during the operation
ListCommandFailed(op, backend) ==
    /\ op.answers[backend].available
    /\ op.answers[backend].output.kind = "exit_nonzero"
    /\ HasCmd(op.cmds, {Tool(backend)}, {"list"})

\* C18: a create, start, stop or delete during which an external command
\* failed (the list command of a backend, or a command of the operation's
\* own, named by stage) ends by raising.
C18_CommandFailureRaises ==
    (/\ last.op \in {"create", "start", "stop", "delete"}
     /\ \/ \E b \in BackendSet : ListCommandFailed(last, b)
        \/ \E k \in 1..Len(last.cmds) : last.cmds[k].verb = last.stage) =>
        last.outcome = "raised"

\* is the name in the registry exactly when a backend holds a live instance of it
Agree(name) ==
    (registry.entries[name] # NoEntry)
        <=> \E b \in BackendSet :
                HasInstance(instances[b], name) /\ StateOf(instances[b], name) # "Deleted"

\* C19: a delete_environment(n) and a create_environment(n) that overlap can
\* end with the registry and the backend disagreeing about n; when neither
\* begins while the other is at work, they end agreeing.
C19_SerialCallsAgree ==
    (last.op = "race" /\ Over(last.create) /\ Over(last.delete) /\ ~last.overlapped) =>
        Agree(RaceName)

\* the two calls overlapped, both returned normally, and the registry holds
\* an entry of the name while no backend holds an instance of it
C19_Witness ==
    /\ last.op = "race"
    /\ last.overlapped
    /\ last.create.pc = "done"
    /\ last.delete.pc = "done"
    /\ registry.entries[RaceName] # NoEntry
    /\ \A b \in BackendSet : ~HasInstance(instances[b], RaceName)

\* the other disagreement: both calls returned normally, the instance the
\* create launched is running, and the registry holds no entry of the name
C19_OrphanInstance ==
    /\ last.op = "race"
    /\ last.overlapped
    /\ last.create.pc = "done"
    /\ last.delete.pc = "done"
    /\ registry.entries[RaceName] = NoEntry
    /\ StateOf(instances[last.backend], RaceName) = "Running"

ReadOnlyOps == {"list", "list after create", "start", "stop", "open_shell", "get_environment_info"}

\* C20: list_environments, start_environment, stop_environment, open_shell
\* and get_environment_info leave the registry file as it was, whether they
\* return or raise.
C20_ReadersLeaveRegistry ==
    [][(last'.op \in ReadOnlyOps /\ last' # last) => registry' = registry]_vars

\* a list that returned without a name of which the registry holds an entry:
\* the entry is still there
C20_Witness ==
    /\ last.op = "list"
    /\ last.outcome = "ok"
    /\ registry.shape = "object"
    /\ \E n \in Names :
           /\ registry.entries[n] # NoEntry
           /\ \A i \in 1..Len(last.listed) : last.listed[i].name # n

C22_TemplateFromRegistry ==
    (last.op = "list" /\ last.outcome = "ok") =>
        /\ \A i \in 1..Len(last.listed) :
               last.listed[i].template =
                   IF registry.shape = "object" /\ registry.entries[last.listed[i].name] # NoEntry
                   THEN registry.entries[last.listed[i].name].template
                   ELSE UnknownTemplate
        /\ \A b \in BackendSet :
               last.answers[b] = Healthy =>
                   \A k \in 1..Len(instances[b]) :
                       \E i \in 1..Len(last.listed) :
                           Tags(last.listed)[i] = <<instances[b][k].name, b>>

\* the registry holds an entry of dev only: dev is listed with its template,
\* web, which has no entry, with "Unknown"
C22_Witness ==
    /\ last.op = "list"
    /\ registry.entries["dev"] # NoEntry
    /\ registry.entries["web"] = NoEntry
    /\ \E i, j \in 1..Len(last.listed) :
           /\ last.listed[i].name = "dev"
           /\ last.listed[i].template = registry.entries["dev"].template
           /\ last.listed[j].name = "web"
           /\ last.listed[j].template = UnknownTemplate

\* the template a list reports for an environment of this name
TemplateShown(reg, name) ==
    IF reg.shape = "object" /\ reg.entries[name] # NoEntry
    THEN reg.entries[name].template ELSE UnknownTemplate

\* C23: a create_environment or delete_environment of name n on backend b
\* that succeeds leaves the template reported for every other live
\* environment as it was, an environment named n on the other backend
\* included.
C23_OthersKeepTemplate ==
    [][(/\ last.op = "none"
        /\ last'.op \in {"create", "delete"}
        /\ last'.outcome = "ok") =>
        \A c \in BackendSet, m \in Names :
            (/\ <<m, c>> # <<last'.name, last'.backend>>
             /\ HasInstance(instances[c], m)
             /\ HasInstance(instances'[c], m)
             /\ TemplateShown(registry, m) # UnknownTemplate) =>
                TemplateShown(registry', m) = TemplateShown(registry, m)]_vars

\* C24: when two mutating calls on different names ran in two worker threads
\* and both succeeded, the registry holds the change of each: the entry of a
\* created name, no entry of a deleted name.
C24_NoLostUpdate ==
    (/\ last.op = "workers"
     /\ \A i \in 1..2 : last.w[i].pc = "done") =>
        /\ registry.shape = "object"
        /\ \A i \in 1..2 :
               registry.entries[last.w[i].name] =
                   IF last.w[i].kind = "create"
                   THEN Entry(RaceTemplate, last.backend) ELSE NoEntry

\* is job j a create whose own callback has not run yet
CreateInFlight(j) ==
    j <= Len(last.jobs) /\ last.jobs[j].kind = "create" /\ last.jobs[j].calls = 0

CreateFinished(j) ==
    /\ last.op = "gui"
    /\ j <= Len(last.jobs)
    /\ last.jobs[j].kind = "create"
    /\ last.jobs[j].pc = "finished"

\* did the outcome callback of create worker j run
CreateCalled(j) == CreateFinished(j) /\ last.jobs[j].calls = 1

RECURSIVE Shape(_, _, _, _)
\* a configuration value as == of Python compares it: the scalar, or for a
\* dict its keys and their values, to depth d
Shape(heap, value, path, d) ==
    IF value.kind # "dict" THEN {<<path, value>>}
    ELSE {<<path, DictRef(0)>>} \cup
         (IF d = 0 THEN {}
          ELSE UNION {Shape(heap, heap[value.at][k], Append(path, k), d - 1) :
                          k \in {g \in Segs : heap[value.at][g] # Absent}})

\* what get(keys) returns
Shown(heap, keys) == Shape(heap, get(heap, keys), <<>>, MaxDepth)

\* the key paths of the built-in defaults
DefaultPaths == {<<"theme">>, <<"window_geometry">>, <<"window_geometry", "width">>}

\* a manager constructed with no config file
Pristine == Collect(load(DefaultHeap, File("absent", EmptyDict)))

\* C27: after reset(), get of every top-level and nested default key returns
\* the built-in default, whatever set and update calls came before.
C27_ResetRestoresDefaults ==
    (last.op = "config" /\ last.call.name = "reset") =>
        \A keys \in DefaultPaths : Shown(last.heap, keys) = Shown(Pristine, keys)

\* C28: after load(), whatever JSON object the file holds, get of every
\* top-level and nested default key path finds a value.
C28_LoadKeepsDefaultPaths ==
    (last.op = "config" /\ last.call.name = "load") =>
        \A keys \in DefaultPaths : get(last.heap, keys) # None

\* is the key a a prefix of the key b (or b itself)
Prefix(a, b) == Len(a) <= Len(b) /\ SubSeq(b, 1, Len(a)) = a

ProbeKeys == SetKeys \cup GotKeys \cup {<<"width">>, <<"window_geometry", "theme">>}

\* C29: after set(k, v), get(k) returns v, and get(j) returns what it
\* returned before for every key j that is no prefix and no extension of k.
C29_SetGetRoundTrip ==
    [][(last.op = "config" /\ last'.call.name = "set") =>
        /\ get(last'.heap, last'.call.key) = last'.call.value
        /\ \A j \in ProbeKeys :
               (~Prefix(j, last'.call.key) /\ ~Prefix(last'.call.key, j)) =>
                   Shown(last'.heap, j) = Shown(last.heap, j)]_vars

\* C30: create_environment with a backend value that is neither multipass
\* nor lxd, a non-empty name and a known template raises, runs no external
\* command at all, and leaves the registry (and the backends) as they were.
C30_UnsupportedBackendFails ==
    [][(/\ Ends("create")
        /\ last'.backend \notin BackendSet
        /\ last'.name # ""
        /\ last'.template \in TemplateIds) =>
           /\ last'.outcome = "raised"
           /\ last'.cmds = <<>>
           /\ registry' = registry
           /\ instances' = instances]_vars

C30_Witness ==
    /\ last.op = "create"
    /\ last.backend = "docker"
    /\ last.name \in Names
    /\ last.template \in TemplateIds
    /\ last.stage = "unsupported"
    /\ last.outcome = "raised"
    /\ registry.shape = "object"
    /\ \E n \in Names : registry.entries[n] # NoEntry

====
